---- MODULE Spec2Model ----
(***************************************************************************)
(* Model of src/python/research_agent.py: one run of main(), from the      *)
(* argument checks to process exit, with conduct_research() unfolded into  *)
(* its engine steps.  The research engine (gpt_researcher) is external: at *)
(* every step it may write text to sys.stdout, raise, or return a value.   *)
(*                                                                         *)
(* Python values are records [t |-> <type name>, v |-> <value>]; Python    *)
(* str values are TLA+ strings, so len(), slicing and concatenation are    *)
(* Len, SubSeq and \o on strings.                                          *)
(***************************************************************************)
EXTENDS Naturals, Integers, Sequences, FiniteSets, TLC

VARIABLES
    sys_argv,         \* sys.argv: program name followed by the positional inputs
    environ_key,      \* os.getenv("OPENAI_API_KEY")
    engine_available, \* whether gpt_researcher can be imported
    depth_settings,   \* ResearchConfig.DEPTH_SETTINGS, the class attribute
    pc,               \* position of the run in main()/conduct_research()
    instructions,     \* main: instructions = sys.argv[1]
    depth,            \* main: depth = sys.argv[2]
    config,           \* conduct_research: config = ResearchConfig.get_settings(depth)
    sys_stdout,       \* what sys.stdout refers to: "real" or "capture"
    old_stdout,       \* conduct_research: old_stdout
    captured_output,  \* conduct_research: contents of the StringIO buffer
    real_stdout,      \* what the process's real standard output has received
    stderr,           \* what the process's standard error has received
    logged,           \* every call made on a logger, in order
    calls,            \* engine steps invoked so far, in order
    redirects,        \* number of times sys.stdout was pointed at the buffer
    writes,           \* number of engine writes so far (bounded by MaxWrites)
    report,           \* conduct_research: report
    sources,          \* conduct_research: sources
    engine_sources,   \* what get_source_urls() returned, as returned
    engine_exc,       \* what an engine step raised, as raised
    findings,         \* main: findings
    exc,              \* the exception in flight, if any
    exit_code         \* process exit status, once exited

\* what a run is started with; no statement of the program assigns to it
inputs == <<sys_argv, environ_key, engine_available, depth_settings>>

vars == <<sys_argv, environ_key, engine_available, depth_settings, pc,
          instructions, depth, config, sys_stdout, engine_exc,
          old_stdout, captured_output, real_stdout, stderr, logged, calls,
          redirects, writes, report, sources, engine_sources, findings, exc,
          exit_code>>

-----------------------------------------------------------------------------
(* Bounds of the model *)

\* longest URL list the engine returns
MaxUrls == 6
\* most writes to sys.stdout the engine makes in one run
MaxWrites == 1
\* most positional inputs given beyond the two required ones
MaxExtraArgs == 1
\* longest generated depth string handed to get_settings directly
MaxDepthLen == 4

-----------------------------------------------------------------------------
(* Python values and string helpers *)

Min(a, b) == IF a < b THEN a ELSE b

Unbound == [t |-> "unbound"]
None == [t |-> "NoneType", v |-> "None"]
PyStr(s) == [t |-> "str", v |-> s]

\* bool(x) for the values that occur as URL entries and environment values
Truthy(x) == ~(x.t = "NoneType" \/ (x.t = "str" /\ x.v = ""))

\* str(x)
Str(x) == IF x.t = "NoneType" THEN "None" ELSE x.v

\* f"{type(x)}"
TypeRepr(x) == "<class '" \o x.t \o "'>"

Digits == "0123456789"

\* str(n) for a natural number n
RECURSIVE IntStr(_)
IntStr(n) ==
    IF n < 10 THEN SubSeq(Digits, n + 1, n + 1)
    ELSE IntStr(n \div 10) \o SubSeq(Digits, (n % 10) + 1, (n % 10) + 1)

\* s[:n]
Prefix(s, n) == SubSeq(s, 1, Min(n, Len(s)))

\* tok in s
Contains(s, tok) ==
    \E i \in 1..(Len(s) + 1) :
        /\ i + Len(tok) - 1 <= Len(s)
        /\ SubSeq(s, i, i + Len(tok) - 1) = tok

Upper == "ABCDEFGHIJKLMNOPQRSTUVWXYZ"
Lower == "abcdefghijklmnopqrstuvwxyz"

LowerChar(c) ==
    IF \E k \in 1..26 : SubSeq(Upper, k, k) = c
    THEN LET k == CHOOSE j \in 1..26 : SubSeq(Upper, j, j) = c
         IN SubSeq(Lower, k, k)
    ELSE c

\* s.lower()
RECURSIVE ToLower(_)
ToLower(s) ==
    IF Len(s) = 0 THEN ""
    ELSE LowerChar(SubSeq(s, 1, 1)) \o ToLower(SubSeq(s, 2, Len(s)))

IsSpace(c) == c \in {" ", "\n", "\t", "\r"}

\* bool(s.strip()): some character of s is not whitespace
StripNonEmpty(s) == \E i \in 1..Len(s) : ~IsSpace(SubSeq(s, i, i))

-----------------------------------------------------------------------------
(* ResearchConfig *)

MaxSourcesQuick == 5
MaxSourcesModerate == 10
MaxSourcesDeep == 20
MaxIterationsQuick == 2
MaxIterationsModerate == 4
MaxIterationsDeep == 6

DEPTH_SETTINGS ==
    [d \in {"quick", "moderate", "deep"} |->
        CASE d = "quick" ->
                [max_sources |-> MaxSourcesQuick,
                 max_iterations |-> MaxIterationsQuick,
                 report_type |-> "research_report"]
          [] d = "moderate" ->
                [max_sources |-> MaxSourcesModerate,
                 max_iterations |-> MaxIterationsModerate,
                 report_type |-> "research_report"]
          [] d = "deep" ->
                [max_sources |-> MaxSourcesDeep,
                 max_iterations |-> MaxIterationsDeep,
                 report_type |-> "detailed_report"]]

\* variant: the default is the first entry of the table
get_settingsFirstDefault(d) ==
    IF d \in DOMAIN depth_settings THEN depth_settings[d]
    ELSE depth_settings["quick"]

\* cls.DEPTH_SETTINGS.get(depth, cls.DEPTH_SETTINGS["moderate"])
get_settings(d) ==
    IF d \in DOMAIN depth_settings THEN depth_settings[d]
    ELSE depth_settings["moderate"]

-----------------------------------------------------------------------------
(* The inputs of a run *)

Prog == "research_agent.py"
Instr == "Research backgammon opening strategies"

DepthInputs == {"quick", "moderate", "deep", "fast"}

Extra(k) == [i \in 1..k |-> "extra"]

\* the argument vectors a run is started with: no, one or two positional
\* inputs, and two followed by up to MaxExtraArgs more
ArgvSet ==
    {<<Prog>>, <<Prog, Instr>>}
    \cup {<<Prog, Instr, d>> : d \in DepthInputs}
    \cup {<<Prog, Instr, d>> \o Extra(k) :
            d \in {"moderate", "fast"}, k \in 1..MaxExtraArgs}

\* OPENAI_API_KEY: not set, set to the empty string, set
KeySet == {None, PyStr(""), PyStr("sk-test")}

-----------------------------------------------------------------------------
(* What the engine can do at a step *)

NoExc == [type |-> "", message |-> "", is_exception |-> FALSE, code |-> 0]

\* Exceptions an engine step can raise: an ordinary error (a subclass of
\* Exception) and the ones that derive from BaseException only.
EngineErrors ==
    {[type |-> "RuntimeError", message |-> "engine failure",
      is_exception |-> TRUE, code |-> 1],
     [type |-> "KeyboardInterrupt", message |-> "",
      is_exception |-> FALSE, code |-> 130],
     [type |-> "CancelledError", message |-> "",
      is_exception |-> FALSE, code |-> 1],
     [type |-> "SystemExit", message |-> "0",
      is_exception |-> FALSE, code |-> 0],
     [type |-> "SystemExit", message |-> "2",
      is_exception |-> FALSE, code |-> 2]}

\* Text the engine can print: harmless, and containing failure tokens
EngineTexts == {"Fetching sources...\n", "Tavily ERROR: request Failed\n"}

\* "" stands for a step that prints nothing
WriteChoices == IF writes < MaxWrites THEN EngineTexts \cup {""} ELSE {""}

SummaryLimit == 500

\* s * k
RECURSIVE Repeat(_, _)
Repeat(s, k) ==
    IF k = 0 THEN ""
    ELSE LET half == Repeat(s, k \div 2)
         IN IF k % 2 = 0 THEN half \o half ELSE half \o half \o s

\* a text of n characters, no two neighbours equal
Text(n) == Prefix(Repeat("1234567890", (n \div 10) + 1), n)

\* what write_report() can return: short and long strings, and non-strings
EngineReports ==
    {PyStr(Text(n)) : n \in {7, SummaryLimit, SummaryLimit + 1}}
    \cup {None, [t |-> "dict", v |-> "{}"]}

Url(i) == PyStr("https://site/" \o IntStr(i))

\* positions of the falsy entries of a list of n URLs: none, one, two adjacent
FalsyPatterns(n) ==
    {{}} \cup {{k} : k \in 1..n} \cup {{k, k + 1} : k \in 1..(n - 1)}

UrlLists ==
    UNION {{[i \in 1..n |-> IF i \in F THEN e ELSE Url(i)] :
                F \in FalsyPatterns(n), e \in {None, PyStr("")}} :
            n \in 0..MaxUrls}

\* what get_source_urls() can return: nothing, a list, and non-lists
EngineSources ==
    {[t |-> "list", v |-> l] : l \in UrlLists}
    \cup {[t |-> "NoneType", v |-> <<>>],
          [t |-> "tuple", v |-> <<Url(1)>>],
          [t |-> "dict", v |-> <<>>]}

-----------------------------------------------------------------------------
(* Output streams and logging *)

\* print(text) by the engine while sys.stdout is st: the real stream ...
StdoutAfter(st, rec) == IF st = "real" THEN Append(real_stdout, rec) ELSE real_stdout
\* ... or the StringIO buffer
CapturedAfter(st, text) ==
    IF st = "capture" THEN captured_output \o text ELSE captured_output

EngineWrite(text) ==
    IF text = ""
    THEN UNCHANGED <<real_stdout, captured_output, writes>>
    ELSE /\ writes' = writes + 1
         /\ real_stdout' = StdoutAfter(sys_stdout, [kind |-> "engine", text |-> text])
         /\ captured_output' = CapturedAfter(sys_stdout, text)

\* a call on a logger; at records what sys.stdout referred to at the call
LogRecord(level, msg, at) ==
    [kind |-> "log", level |-> level, text |-> msg, stdout_at |-> at]

\* logging.basicConfig(level='WARNING', stream=sys.stderr): the records the
\* root handler writes
Handled(rec) == rec.level \in {"WARNING", "ERROR", "CRITICAL"}

StderrAfterLogs(recs) == stderr \o SelectSeq(recs, Handled)

\* print(json.dumps(doc, indent=indent), file=...): the document, by its fields
JsonDoc(doc, indent) == [kind |-> "json", indent |-> indent, doc |-> doc]

-----------------------------------------------------------------------------
(* main: the precondition checks *)

\* variant: anything but exactly two positional inputs is rejected
ArgsNotExactlyTwo == Len(sys_argv) # 3

\* len(sys.argv) < 3
ArgsMissing == Len(sys_argv) < 3

\* variant: the depth is looked at only once the credential is known to be set
DepthValidAfterKey ==
    depth \in {"quick", "moderate", "deep"} \/ ~Truthy(environ_key)

\* depth in ["quick", "moderate", "deep"]
DepthValid == depth \in {"quick", "moderate", "deep"}

\* variant: os.getenv("OPENAI_API_KEY") is None
KeyMissingNoneOnly == environ_key.t = "NoneType"

\* not os.getenv("OPENAI_API_KEY")
KeyMissing == ~Truthy(environ_key)

UsageEnvelope ==
    [error |-> "Missing required arguments",
     usage |-> "python research_agent.py '<instructions>' '<depth>'",
     example |-> "python research_agent.py 'Research backgammon' 'moderate'"]

DepthEnvelope ==
    [error |-> "Invalid depth: " \o depth,
     valid_depths |-> <<"quick", "moderate", "deep">>]

KeyEnvelope ==
    [error |-> "OPENAI_API_KEY environment variable not set",
     solution |-> "Set OPENAI_API_KEY in .env file"]

\* print(json.dumps(error), file=sys.stderr); sys.exit(1)
FailWith(envelope) ==
    /\ stderr' = Append(stderr, JsonDoc(envelope, "None"))
    /\ exit_code' = 1
    /\ pc' = "exited"

CheckArgs ==
    /\ pc = "check_args"
    /\ IF ArgsMissing
       THEN /\ FailWith(UsageEnvelope)
            /\ UNCHANGED <<instructions, depth>>
       ELSE /\ instructions' = sys_argv[2]
            /\ depth' = sys_argv[3]
            /\ pc' = "check_depth"
            /\ UNCHANGED <<stderr, exit_code>>
    /\ UNCHANGED <<inputs, engine_sources, engine_exc, config, sys_stdout, old_stdout,
                   captured_output, real_stdout, logged, calls, redirects,
                   writes, report, sources, findings, exc>>

CheckDepth ==
    /\ pc = "check_depth"
    /\ IF ~DepthValid
       THEN FailWith(DepthEnvelope)
       ELSE /\ pc' = "check_key"
            /\ UNCHANGED <<stderr, exit_code>>
    /\ UNCHANGED <<inputs, engine_sources, engine_exc, instructions, depth, config,
                   sys_stdout, old_stdout, captured_output, real_stdout,
                   logged, calls, redirects, writes, report, sources,
                   findings, exc>>

CheckKey ==
    /\ pc = "check_key"
    /\ IF KeyMissing
       THEN FailWith(KeyEnvelope)
       ELSE /\ pc' = "import"
            /\ UNCHANGED <<stderr, exit_code>>
    /\ UNCHANGED <<inputs, engine_sources, engine_exc, instructions, depth, config,
                   sys_stdout, old_stdout, captured_output, real_stdout,
                   logged, calls, redirects, writes, report, sources,
                   findings, exc>>

-----------------------------------------------------------------------------
(* conduct_research: loading the engine, the fallback, entering the guard *)

\* variant: the fallback metadata without the mode flags
PocMetadataUnlabelled(cfg) ==
    [maxSources |-> cfg.max_sources,
     maxIterations |-> cfg.max_iterations,
     reportType |-> cfg.report_type]

\* "metadata" of the fallback Finding
PocMetadata(cfg) ==
    [maxSources |-> cfg.max_sources,
     maxIterations |-> cfg.max_iterations,
     reportType |-> "poc_mode",
     mode |-> "POC",
     status |-> "test",
     warning |-> "GPT Researcher not installed - using test data"]

\* The fallback Finding.  The two-character warning sign that opens the
\* summary and the fourth line of the report is written "!!".
PocFindings(instr, d, cfg) ==
    [query |-> instr,
     depth |-> d,
     summary |-> "!! POC MODE: GPT Researcher not installed. This is TEST DATA.",
     fullReport |->
        "# POC Mode Research Report\n\n"
        \o "Query: " \o instr \o "\n"
        \o "Depth: " \o d \o "\n\n"
        \o "!! This is simulated data because GPT Researcher is not installed.\n"
        \o "To enable real research:\n"
        \o "1. Ensure Python venv is activated\n"
        \o "2. Run: pip install gpt-researcher\n"
        \o "3. Set OPENAI_API_KEY in .env\n",
     sources |-> <<[url |-> "https://example.com/source1", title |-> "Example Source 1"],
                   [url |-> "https://example.com/source2", title |-> "Example Source 2"]>>,
     sourcesAnalyzed |-> 2,
     metadata |-> PocMetadata(cfg)]

ImportErrorExc ==
    [type |-> "ModuleNotFoundError", message |-> "No module named 'gpt_researcher'",
     is_exception |-> TRUE, code |-> 1]

\* variant: a failed engine call sends the run back to the first engine call
HandlerForRetry(e) == "construct"

\* where an exception raised inside the guarded try block goes: the except
\* clause takes subclasses of Exception, everything else goes to finally
HandlerFor(e) == IF e.is_exception THEN "except" ELSE "finally"

\* from gpt_researcher import GPTResearcher: the module's top level runs
\* with sys.stdout untouched.  It loads, is missing, or raises.
ImportEngine ==
    /\ pc = "import"
    /\ calls' = Append(calls, "import")
    /\ \E text \in WriteChoices : EngineWrite(text)
    /\ \/ \* loaded: settings, then sys.stdout is pointed at the buffer
          /\ engine_available
          /\ config' = get_settings(depth)
          /\ old_stdout' = sys_stdout
          /\ sys_stdout' = "capture"
          /\ redirects' = redirects + 1
          /\ pc' = "construct"
          /\ UNCHANGED <<stderr, logged, findings, exc, engine_exc>>
       \/ \* ImportError: warning, then the fallback Finding is returned
          /\ ~engine_available
          /\ LET rec == LogRecord("WARNING",
                            "GPT Researcher not available: " \o ImportErrorExc.message
                            \o ". Running in POC mode.", sys_stdout)
             IN /\ logged' = Append(logged, rec)
                /\ stderr' = StderrAfterLogs(<<rec>>)
          /\ config' = get_settings(depth)
          /\ findings' = PocFindings(instructions, depth, get_settings(depth))
          /\ pc' = "emit_result"
          /\ UNCHANGED <<sys_stdout, old_stdout, redirects, exc, engine_exc>>
       \/ \* any other exception leaves conduct_research at once
          /\ engine_available
          /\ \E e \in EngineErrors :
                /\ exc' = e
                /\ engine_exc' = e
          /\ pc' = "main_except"
          /\ UNCHANGED <<config, sys_stdout, old_stdout, redirects, stderr,
                         logged, findings>>
    /\ UNCHANGED <<inputs, engine_sources, instructions, depth, report,
                   sources, exit_code>>

-----------------------------------------------------------------------------
(* conduct_research: the guarded engine calls *)

\* an engine call that raises e inside the try block
Raise(e) ==
    /\ exc' = e
    /\ engine_exc' = e
    /\ pc' = HandlerFor(e)

\* researcher = GPTResearcher(query=..., report_type=..., config_path=None)
Construct ==
    /\ pc = "construct"
    /\ calls' = Append(calls, "construct")
    /\ \E text \in WriteChoices : EngineWrite(text)
    /\ \/ pc' = "conduct" /\ UNCHANGED <<exc, engine_exc>>
       \/ \E e \in EngineErrors : Raise(e)
    /\ UNCHANGED <<inputs, engine_sources, instructions, depth, config,
                   sys_stdout, old_stdout, stderr, logged, redirects, report,
                   sources, findings, exit_code>>

\* await researcher.conduct_research()
ConductResearch ==
    /\ pc = "conduct"
    /\ calls' = Append(calls, "conduct_research")
    /\ \E text \in WriteChoices : EngineWrite(text)
    /\ \/ pc' = "write_report" /\ UNCHANGED <<exc, engine_exc>>
       \/ \E e \in EngineErrors : Raise(e)
    /\ UNCHANGED <<inputs, engine_sources, instructions, depth, config,
                   sys_stdout, old_stdout, stderr, logged, redirects, report,
                   sources, findings, exit_code>>

\* report = await researcher.write_report()
WriteReport ==
    /\ pc = "write_report"
    /\ calls' = Append(calls, "write_report")
    /\ \E text \in WriteChoices : EngineWrite(text)
    /\ \/ /\ \E r \in EngineReports : report' = r
          /\ pc' = "get_sources"
          /\ UNCHANGED <<exc, engine_exc>>
       \/ /\ \E e \in EngineErrors : Raise(e)
          /\ UNCHANGED report
    /\ UNCHANGED <<inputs, engine_sources, instructions, depth, config,
                   sys_stdout, old_stdout, stderr, logged, redirects,
                   sources, findings, exit_code>>

\* sources = researcher.get_source_urls()
GetSourceUrls ==
    /\ pc = "get_sources"
    /\ calls' = Append(calls, "get_source_urls")
    /\ \E text \in WriteChoices : EngineWrite(text)
    /\ \/ /\ \E l \in EngineSources :
                /\ sources' = l
                /\ engine_sources' = l
          /\ pc' = "finally"
          /\ UNCHANGED <<exc, engine_exc>>
       \/ /\ \E e \in EngineErrors : Raise(e)
          /\ UNCHANGED <<sources, engine_sources>>
    /\ UNCHANGED <<inputs, instructions, depth, config,
                   sys_stdout, old_stdout, stderr, logged, redirects,
                   report, findings, exit_code>>

\* except Exception as e: log the captured output, re-raise
ExceptHandler ==
    /\ pc = "except"
    /\ LET suppressed_output == captured_output
           rec == LogRecord("ERROR",
                      "Research failed with suppressed output: "
                      \o Prefix(suppressed_output, 500), sys_stdout)
       IN IF StripNonEmpty(suppressed_output)
          THEN /\ logged' = Append(logged, rec)
               /\ stderr' = StderrAfterLogs(<<rec>>)
          ELSE UNCHANGED <<logged, stderr>>
    /\ pc' = "finally"
    /\ UNCHANGED <<inputs, engine_sources, engine_exc, instructions, depth, config,
                   sys_stdout, old_stdout, captured_output, real_stdout,
                   calls, redirects, writes, report, sources, findings, exc,
                   exit_code>>

\* any(err in suppressed_output.lower() for err in [...])
HasErrorPattern(s) ==
    \E err \in {"error", "failed", "timeout", "exception"} :
        Contains(ToLower(s), err)

\* variant: sys.stdout restored after the try body, not in a finally clause
FinallyStdoutOnSuccess == IF exc = NoExc THEN old_stdout ELSE sys_stdout

\* variant: the finally clause leaves sys.stdout as it is
FinallyStdoutKept == sys_stdout

\* finally: sys.stdout = old_stdout
FinallyStdout == old_stdout

\* finally: restore sys.stdout, then log what was suppressed; afterwards the
\* exception in flight, if any, goes on to main
Finally ==
    /\ pc = "finally"
    /\ sys_stdout' = FinallyStdout
    /\ LET suppressed_output == captured_output
           rec == IF HasErrorPattern(suppressed_output)
                  THEN LogRecord("WARNING",
                           "Suppressed output contained errors: "
                           \o Prefix(suppressed_output, 200), sys_stdout')
                  ELSE LogRecord("DEBUG",
                           "Suppressed output: "
                           \o Prefix(suppressed_output, 200), sys_stdout')
       IN IF StripNonEmpty(suppressed_output)
          THEN /\ logged' = Append(logged, rec)
               /\ stderr' = StderrAfterLogs(<<rec>>)
          ELSE UNCHANGED <<logged, stderr>>
    /\ pc' = IF exc = NoExc THEN "validate" ELSE "main_except"
    /\ UNCHANGED <<inputs, engine_sources, engine_exc, instructions, depth, config,
                   old_stdout, captured_output, real_stdout, calls,
                   redirects, writes, report, sources, findings, exc,
                   exit_code>>

-----------------------------------------------------------------------------
(* conduct_research: validation and the Finding *)

ValueError(msg) ==
    [type |-> "ValueError", message |-> msg, is_exception |-> TRUE, code |-> 1]

\* variant: len(report) >= 500
SummaryOffByOne(r) ==
    IF Len(r) >= SummaryLimit THEN Prefix(r, SummaryLimit) \o "..." ELSE r

\* report[:500] + "..." if len(report) > 500 else report
Summary(r) ==
    IF Len(r) > SummaryLimit THEN Prefix(r, SummaryLimit) \o "..." ELSE r

\* variant: enumerate(sources), without the [:max_sources] slice
SourceEntriesUncut(list, max_sources) ==
    LET enumerated == [i \in 1..Len(list) |-> [idx |-> i - 1, url |-> list[i]]]
        kept == SelectSeq(enumerated, LAMBDA p : Truthy(p.url))
    IN [k \in 1..Len(kept) |->
            [url |-> Str(kept[k].url),
             title |-> "Source " \o IntStr(kept[k].idx + 1)]]

\* [{"url": str(url), "title": f"Source {idx + 1}"}
\*  for idx, url in enumerate(sources[:max_sources]) if url]
SourceEntries(list, max_sources) ==
    LET cut == SubSeq(list, 1, Min(max_sources, Len(list)))
        enumerated == [i \in 1..Len(cut) |-> [idx |-> i - 1, url |-> cut[i]]]
        kept == SelectSeq(enumerated, LAMBDA p : Truthy(p.url))
    IN [k \in 1..Len(kept) |->
            [url |-> Str(kept[k].url),
             title |-> "Source " \o IntStr(kept[k].idx + 1)]]

\* variant: isinstance(sources, list) without the None case before it
SourcesValidListOnly(src) == src.t = "list"

\* sources is None, or isinstance(sources, list)
SourcesValid(src) == src.t \in {"NoneType", "list"}

\* sources = [] when sources is None
SourceList(src) == IF src.t = "NoneType" THEN <<>> ELSE src.v

MakeFindings(instr, d, cfg, rep, list) ==
    [query |-> instr,
     depth |-> d,
     summary |-> Summary(rep),
     fullReport |-> rep,
     sources |-> SourceEntries(list, cfg.max_sources),
     sourcesAnalyzed |-> Len(list),
     metadata |-> [maxSources |-> cfg.max_sources,
                   maxIterations |-> cfg.max_iterations,
                   reportType |-> cfg.report_type]]

\* the type checks, then the Finding is built and returned to main
BuildFindings ==
    /\ pc = "validate"
    /\ IF report.t # "str"
       THEN /\ exc' = ValueError("Research report must be string, got "
                                 \o TypeRepr(report))
            /\ pc' = "main_except"
            /\ UNCHANGED <<sources, findings>>
       ELSE IF ~SourcesValid(sources)
       THEN /\ exc' = ValueError("Research sources must be list, got "
                                 \o TypeRepr(sources))
            /\ pc' = "main_except"
            /\ UNCHANGED <<sources, findings>>
       ELSE /\ sources' = [t |-> "list", v |-> SourceList(sources)]
            /\ findings' = MakeFindings(instructions, depth, config, report.v,
                                        SourceList(sources))
            /\ pc' = "emit_result"
            /\ UNCHANGED exc
    /\ UNCHANGED <<inputs, engine_sources, engine_exc, instructions, depth, config,
                   sys_stdout, old_stdout, captured_output, real_stdout,
                   stderr, logged, calls, redirects, writes, report,
                   exit_code>>

-----------------------------------------------------------------------------
(* main: the two ways out *)

\* print(json.dumps(findings, indent=2)); sys.exit(0)
EmitResult ==
    /\ pc = "emit_result"
    /\ real_stdout' = StdoutAfter(sys_stdout, JsonDoc(findings, "2"))
    /\ captured_output' = CapturedAfter(sys_stdout, "{...}\n")
    /\ exit_code' = 0
    /\ pc' = "exited"
    /\ UNCHANGED <<inputs, engine_sources, engine_exc, instructions, depth, config,
                   sys_stdout, old_stdout, stderr, logged, calls, redirects,
                   writes, report, sources, findings, exc>>

\* variant: the captured output is appended to the message
ErrorEnvelopeWithOutput(e) ==
    [error |-> "Research failed",
     message |-> e.message \o captured_output,
     type |-> e.type]

ErrorEnvelope(e) ==
    [error |-> "Research failed", message |-> e.message, type |-> e.type]

\* except Exception as e: the envelope on stderr, sys.exit(1)
EmitError ==
    /\ pc = "main_except"
    /\ exc.is_exception
    /\ FailWith(ErrorEnvelope(exc))
    /\ UNCHANGED <<inputs, engine_sources, engine_exc, instructions, depth, config,
                   sys_stdout, old_stdout, captured_output, real_stdout,
                   logged, calls, redirects, writes, report, sources,
                   findings, exc>>

\* An exception that is no subclass of Exception passes main's except clause
\* and ends the process: SystemExit with its own code and no output, the
\* others with a traceback on stderr.
Uncaught ==
    /\ pc = "main_except"
    /\ ~exc.is_exception
    /\ stderr' = IF exc.type = "SystemExit" THEN stderr
                 ELSE Append(stderr, [kind |-> "traceback", type |-> exc.type])
    /\ exit_code' = exc.code
    /\ pc' = "exited"
    /\ UNCHANGED <<inputs, engine_sources, engine_exc, instructions, depth, config,
                   sys_stdout, old_stdout, captured_output, real_stdout,
                   logged, calls, redirects, writes, report, sources,
                   findings, exc>>

-----------------------------------------------------------------------------
(* ResearchConfig.get_settings called on its own, with any depth string *)

\* the strings of at most n letters over d, e, p ("deep" among them)
RECURSIVE Words(_)
Words(n) ==
    IF n = 0 THEN {""}
    ELSE LET shorter == Words(n - 1)
         IN shorter \cup {w \o c : w \in shorter, c \in {"d", "e", "p"}}

\* depth strings: the known levels, near misses, and generated strings
DepthStrings ==
    DepthInputs \cup {"bogus", "QUICK", "Moderate", " deep", "moderate "}
    \cup Words(MaxDepthLen)

\* config = ResearchConfig.get_settings(depth)
ResolveSettings ==
    /\ pc = "get_settings"
    /\ config' = get_settings(depth)
    /\ pc' = "settings_done"
    /\ UNCHANGED <<inputs, engine_sources, engine_exc, instructions, depth,
                   sys_stdout, old_stdout, captured_output, real_stdout,
                   stderr, logged, calls, redirects, writes, report, sources,
                   findings, exc, exit_code>>

-----------------------------------------------------------------------------
(* The run *)

Init ==
    /\ sys_argv \in ArgvSet
    /\ environ_key \in KeySet
    /\ engine_available \in BOOLEAN
    /\ depth_settings = DEPTH_SETTINGS
    /\ pc = "check_args"
    /\ instructions = ""
    /\ depth = ""
    /\ config = Unbound
    /\ sys_stdout = "real"
    /\ old_stdout = "unbound"
    /\ captured_output = ""
    /\ real_stdout = <<>>
    /\ stderr = <<>>
    /\ logged = <<>>
    /\ calls = <<>>
    /\ redirects = 0
    /\ writes = 0
    /\ report = Unbound
    /\ sources = Unbound
    /\ engine_sources = Unbound
    /\ engine_exc = NoExc
    /\ findings = Unbound
    /\ exc = NoExc
    /\ exit_code = -1

Next ==
    \/ CheckArgs
    \/ CheckDepth
    \/ CheckKey
    \/ ImportEngine
    \/ Construct
    \/ ConductResearch
    \/ WriteReport
    \/ GetSourceUrls
    \/ ExceptHandler
    \/ Finally
    \/ BuildFindings
    \/ EmitResult
    \/ EmitError
    \/ Uncaught

Spec == Init /\ [][Next]_vars

\* a call of get_settings alone: nothing has run yet, depth is any string
InitSettings ==
    /\ sys_argv = <<Prog>>
    /\ environ_key = None
    /\ engine_available = FALSE
    /\ depth_settings = DEPTH_SETTINGS
    /\ pc = "get_settings"
    /\ instructions = ""
    /\ depth \in DepthStrings
    /\ config = Unbound
    /\ sys_stdout = "real"
    /\ old_stdout = "unbound"
    /\ captured_output = ""
    /\ real_stdout = <<>>
    /\ stderr = <<>>
    /\ logged = <<>>
    /\ calls = <<>>
    /\ redirects = 0
    /\ writes = 0
    /\ report = Unbound
    /\ sources = Unbound
    /\ engine_sources = Unbound
    /\ engine_exc = NoExc
    /\ findings = Unbound
    /\ exc = NoExc
    /\ exit_code = -1

NextSettings ==
    \/ Next
    \/ ResolveSettings

\* runs of main, and calls of get_settings on arbitrary depth strings
SpecSettings == (Init \/ InitSettings) /\ [][NextSettings]_vars

-----------------------------------------------------------------------------
(* Vocabulary of the properties *)

Exited == pc = "exited"

IsJson(rec) == rec.kind = "json"

\* the JSON documents each channel has received
StdoutDocs == SelectSeq(real_stdout, IsJson)
StderrDocs == SelectSeq(stderr, IsJson)

ValidDepths == {"quick", "moderate", "deep"}

\* the three preconditions, in terms of what the run was started with
InputCountOk == Len(sys_argv) >= 3
DepthOk == InputCountOk /\ sys_argv[3] \in ValidDepths
KeyOk == Truthy(environ_key)
PreconditionsHold == InputCountOk /\ DepthOk /\ KeyOk

\* the envelope of a malformed invocation
ExpectedUsage ==
    [error |-> "Missing required arguments",
     usage |-> "python research_agent.py '<instructions>' '<depth>'",
     example |-> "python research_agent.py 'Research backgammon' 'moderate'"]

IsFinding(doc) == {"query", "summary", "fullReport", "sources"} \subseteq DOMAIN doc
IsEnvelope(doc) == "error" \in DOMAIN doc

\* the steps made on the engine object once it is loaded
EngineSteps == {"construct", "conduct_research", "write_report", "get_source_urls"}

Invoked(step) == \E i \in DOMAIN calls : calls[i] = step

-----------------------------------------------------------------------------
(* C1 *)

\* C1 (as claimed): every run that has ended has produced exactly one JSON
\* document in total, with the matching exit code: one Finding on standard
\* output and exit code 0 and no envelope on standard error, or one
\* ErrorEnvelope on standard error and exit code 1 and no document on
\* standard output.  Refuted: an engine step that raises an exception which
\* is no subclass of Exception ends the run with no document at all.
C1_OneDocumentAndMatchingCode ==
    Exited =>
        \/ /\ Len(StdoutDocs) = 1
           /\ IsFinding(StdoutDocs[1].doc)
           /\ exit_code = 0
           /\ Len(StderrDocs) = 0
        \/ /\ Len(StderrDocs) = 1
           /\ IsEnvelope(StderrDocs[1].doc)
           /\ exit_code = 1
           /\ Len(StdoutDocs) = 0

-----------------------------------------------------------------------------
(* C2 *)

\* C2 (as claimed): at every moment the real standard output has received
\* nothing but the single result document; whatever the engine prints is in
\* the capture buffer.  Refuted: the engine is imported before sys.stdout is
\* redirected, so what its import prints reaches the real stream.
C2_RealStdoutOnlyResult ==
    /\ \A i \in DOMAIN real_stdout : IsJson(real_stdout[i])
    /\ Len(real_stdout) <= 1

-----------------------------------------------------------------------------
(* C3 *)

AfterGuard == pc \in {"validate", "emit_result", "main_except", "exited"}

\* C3: once the guarded region has been entered and left, by return or by
\* any exception, sys.stdout is again the stream saved on entry (the real
\* stream).
C3_StdoutRestored ==
    (redirects > 0 /\ AfterGuard) =>
        /\ sys_stdout = old_stdout
        /\ sys_stdout = "real"

\* the engine wrote into the buffer and then raised, and the guard was left
C3_Witness ==
    /\ redirects > 0
    /\ pc = "main_except"
    /\ exc # NoExc
    /\ captured_output # ""
    /\ sys_stdout = "real"

-----------------------------------------------------------------------------
(* C4 *)

\* the envelope the earliest failing precondition asks for
ExpectedEnvelope ==
    IF ~InputCountOk THEN ExpectedUsage
    ELSE IF ~DepthOk
    THEN [error |-> "Invalid depth: " \o sys_argv[3],
          valid_depths |-> <<"quick", "moderate", "deep">>]
    ELSE [error |-> "OPENAI_API_KEY environment variable not set",
          solution |-> "Set OPENAI_API_KEY in .env file"]

\* C4: when a precondition fails, the run ends with exactly one record on
\* standard error, the envelope of the earliest failing check in the order
\* input count, depth, credential; no later check adds to the output.
C4_FirstFailingCheckDecides ==
    (Exited /\ ~PreconditionsHold) =>
        /\ stderr = <<JsonDoc(ExpectedEnvelope, "None")>>
        /\ real_stdout = <<>>
        /\ logged = <<>>

\* depth and credential fail together; the depth envelope was emitted
C4_Witness ==
    /\ Exited
    /\ InputCountOk /\ ~DepthOk /\ ~KeyOk
    /\ Len(stderr) = 1
    /\ "valid_depths" \in DOMAIN stderr[1].doc

-----------------------------------------------------------------------------
(* C5 *)

\* C5: in a run started with a failing precondition the engine is never
\* loaded or called and sys.stdout is never redirected, and the run exits
\* with code 1.
C5_NoEngineOnPreconditionFailure ==
    ~PreconditionsHold =>
        /\ calls = <<>>
        /\ redirects = 0
        /\ sys_stdout = "real"
        /\ pc \in {"check_args", "check_depth", "check_key", "exited"}
        /\ Exited => exit_code = 1

\* only the credential is missing; the run has exited
C5_Witness ==
    /\ Exited
    /\ InputCountOk /\ DepthOk /\ ~KeyOk
    /\ exit_code = 1
    /\ calls = <<>>

-----------------------------------------------------------------------------
(* C6 *)

\* C6 (as claimed): a run started with fewer or with more than two
\* positional inputs ends with the usage envelope on standard error and
\* exit code 1.  Refuted: positional inputs beyond the second are accepted.
C6_ExactlyTwoInputs ==
    (Exited /\ Len(sys_argv) # 3) =>
        /\ stderr = <<JsonDoc(ExpectedUsage, "None")>>
        /\ exit_code = 1

\* C6 (amended): a run started with fewer than two positional inputs ends
\* with the usage envelope on standard error and exit code 1; a run started
\* with two or more passes the input-count check, takes the first two as
\* instructions and depth, ignores the rest and never emits the usage
\* envelope.
C6_AtLeastTwoInputs ==
    /\ (Exited /\ Len(sys_argv) < 3) =>
            /\ stderr = <<JsonDoc(ExpectedUsage, "None")>>
            /\ exit_code = 1
            /\ real_stdout = <<>>
    /\ (Len(sys_argv) >= 3 /\ pc # "check_args") =>
            /\ instructions = sys_argv[2]
            /\ depth = sys_argv[3]
            /\ \A i \in DOMAIN StderrDocs : StderrDocs[i].doc # ExpectedUsage

\* a run started with three positional inputs has succeeded
C6_Witness ==
    /\ Exited
    /\ Len(sys_argv) > 3
    /\ exit_code = 0
    /\ Len(StdoutDocs) = 1

-----------------------------------------------------------------------------
(* C7 *)

\* a Finding of the engine path carries no mode flag
FromEngine(f) == "mode" \notin DOMAIN f.metadata

\* number of entries of the list the engine returned, 0 when it returned None
EngineSourceCount ==
    IF engine_sources.t = "list" THEN Len(engine_sources.v) ELSE 0

\* C7: every Finding on standard output has at most maxSources sources and
\* sourcesAnalyzed >= len(sources); on the engine path sourcesAnalyzed is
\* the length of the list the engine returned (0 for None), before the
\* truncation and the filtering.
C7_SourceCounts ==
    \A i \in DOMAIN StdoutDocs :
        LET f == StdoutDocs[i].doc
        IN /\ Len(f.sources) <= f.metadata.maxSources
           /\ f.sourcesAnalyzed >= Len(f.sources)
           /\ FromEngine(f) => f.sourcesAnalyzed = EngineSourceCount

\* the engine returned more entries than maxSources, a falsy one among the
\* first maxSources, and the Finding was emitted
C7_Witness ==
    /\ Exited
    /\ exit_code = 0
    /\ Len(StdoutDocs) = 1
    /\ LET f == StdoutDocs[1].doc
       IN /\ FromEngine(f)
          /\ EngineSourceCount > f.metadata.maxSources
          /\ Len(f.sources) < f.metadata.maxSources
          /\ f.sourcesAnalyzed > f.metadata.maxSources

-----------------------------------------------------------------------------
(* C8 *)

SummaryRule(f) ==
    f.summary = IF Len(f.fullReport) <= 500 THEN f.fullReport
                ELSE SubSeq(f.fullReport, 1, 500) \o "..."

\* C8 (as claimed): in every Finding on standard output, of the engine path
\* and of the fallback path alike, summary is fullReport when that has at
\* most 500 characters and else its first 500 characters followed by "...".
\* Refuted: the fallback Finding has a fixed summary that is not its report.
C8_SummaryRuleEveryFinding ==
    \A i \in DOMAIN StdoutDocs : SummaryRule(StdoutDocs[i].doc)

\* C8 (amended): the rule holds for every Finding of the engine path; the
\* fallback Finding carries the fixed placeholder notice as its summary.
C8_SummaryRuleEngineFinding ==
    \A i \in DOMAIN StdoutDocs :
        LET f == StdoutDocs[i].doc
        IN IF FromEngine(f) THEN SummaryRule(f)
           ELSE f.summary =
                "!! POC MODE: GPT Researcher not installed. This is TEST DATA."

\* a Finding of the engine path whose report is longer than 500 characters
C8_Witness ==
    /\ Exited
    /\ Len(StdoutDocs) = 1
    /\ FromEngine(StdoutDocs[1].doc)
    /\ Len(StdoutDocs[1].doc.fullReport) > 500
    /\ Len(StdoutDocs[1].doc.summary) = 503

-----------------------------------------------------------------------------
(* C9 *)

-----------------------------------------------------------------------------
(* C10 *)

\* C10 (as claimed): when all engine calls completed and the report is not
\* a string, whatever the source value, the run ends with exit code 1,
\* nothing on standard output, and on standard error the one envelope
\* {error, message, type} of a ValueError whose message names the type of
\* the report.  Refuted in the part "nothing on standard output": what the
\* engine printed while it was imported is on standard output (see C2).
C10_NonStringReportRejected ==
    (Exited /\ engine_sources # Unbound /\ report.t # "str") =>
        /\ exit_code = 1
        /\ real_stdout = <<>>
        /\ Len(StderrDocs) = 1
        /\ StderrDocs[1].doc =
              [error |-> "Research failed",
               message |-> "Research report must be string, got "
                           \o "<class '" \o report.t \o "'>",
               type |-> "ValueError"]

-----------------------------------------------------------------------------
(* C11 *)

\* the documented triple of each depth, moderate for every other string
ExpectedSettings(d) ==
    CASE d = "quick" ->
            [max_sources |-> 5, max_iterations |-> 2,
             report_type |-> "research_report"]
      [] d = "deep" ->
            [max_sources |-> 20, max_iterations |-> 6,
             report_type |-> "detailed_report"]
      [] OTHER ->
            [max_sources |-> 10, max_iterations |-> 4,
             report_type |-> "research_report"]

\* C11: get_settings is total on depth strings: it returns (5, 2,
\* research_report), (10, 4, research_report), (20, 6, detailed_report) for
\* quick, moderate, deep and the moderate triple for every other string;
\* the table it reads has its three documented entries in every state of
\* every run.
C11_SettingsTotal ==
    /\ config # Unbound => config = ExpectedSettings(depth)
    /\ pc = "settings_done" => config # Unbound
    /\ DOMAIN depth_settings = {"quick", "moderate", "deep"}
    /\ \A d \in DOMAIN depth_settings : depth_settings[d] = ExpectedSettings(d)

\* get_settings has answered for a string that is no known depth
C11_Witness ==
    /\ pc = "settings_done"
    /\ depth \notin {"quick", "moderate", "deep"}
    /\ config.max_sources = 10
    /\ config.max_iterations = 4
    /\ config.report_type = "research_report"

-----------------------------------------------------------------------------
(* C12 *)

\* the list the engine returned ([] for None)
EngineList == IF engine_sources.t = "list" THEN engine_sources.v ELSE <<>>

\* the sources as claimed: falsy entries discarded first, then the first
\* max_sources of the rest, titled by their position in the result
ClaimedSources(list, max_sources) ==
    LET truthy == SelectSeq(list, Truthy)
        cut == SubSeq(truthy, 1, Min(max_sources, Len(truthy)))
    IN [k \in 1..Len(cut) |->
            [url |-> Str(cut[k]), title |-> "Source " \o IntStr(k)]]

\* C12 (as claimed): the sources of a Finding of the engine path are the
\* first maxSources non-falsy entries of the engine's list, in order, and
\* the k-th of them is titled "Source k".  Refuted: the list is cut to
\* maxSources before the falsy entries are dropped, and a title is the
\* position in the cut list, so a falsy entry leaves a gap in the titles and
\* can leave fewer sources than there are.
C12_FilterThenTruncate ==
    \A i \in DOMAIN StdoutDocs :
        LET f == StdoutDocs[i].doc
        IN FromEngine(f) =>
              f.sources = ClaimedSources(EngineList, f.metadata.maxSources)

-----------------------------------------------------------------------------
(* C13 *)

\* a step made on the loaded engine has raised
EngineStepRaised ==
    /\ engine_exc # NoExc
    /\ \E step \in EngineSteps : Invoked(step)

\* C13 (as claimed): whatever an engine step raises, an ordinary error or
\* an interrupt, a cancellation or an exit request, the run ends with exit
\* code 1 and on standard error the one envelope {error, message, type}
\* carrying the type and the message of what the engine raised.  Refuted:
\* main catches subclasses of Exception only.
C13_EveryEngineExceptionMapped ==
    (Exited /\ EngineStepRaised) =>
        /\ exit_code = 1
        /\ StderrDocs =
              <<JsonDoc([error |-> "Research failed",
                         message |-> engine_exc.message,
                         type |-> engine_exc.type], "None")>>
        /\ Len(StdoutDocs) = 0

-----------------------------------------------------------------------------
(* C14 *)

StepOrder ==
    <<"import", "construct", "conduct_research", "write_report",
      "get_source_urls">>

\* C14: every step that invokes the engine is the next one of the fixed
\* order load/construct, conduct research, write report, list sources, is
\* made at most once, and is made only while no exception is in flight:
\* after a step has raised, no step follows and none is made again.
C14_StepsOnceInOrder ==
    [][calls' # calls =>
          /\ exc = NoExc
          /\ engine_exc = NoExc
          /\ Len(calls) < Len(StepOrder)
          /\ calls' = Append(calls, StepOrder[Len(calls) + 1])]_vars

\* conduct_research() raised: the run ended without the two later steps
C14_Witness ==
    /\ Exited
    /\ engine_exc # NoExc
    /\ calls = <<"import", "construct", "conduct_research">>

-----------------------------------------------------------------------------
(* C15 *)

StartsWith(s, p) == Len(s) >= Len(p) /\ SubSeq(s, 1, Len(p)) = p

\* the record of the except clause, and the classified record of finally
ByExcept(rec) == StartsWith(rec.text, "Research failed with suppressed output: ")
ByFinally(rec) == StartsWith(rec.text, "Suppressed output")

\* the guarded region was left by an exception that is now on its way to main
ExceptionAtEntryPoint == pc = "main_except" /\ redirects > 0

\* C15 (as claimed): every log record built from the captured output was
\* emitted with sys.stdout already restored, and an exception reaches main
\* only after the restoration and the logging.  Refuted: the except clause
\* logs its record before the finally clause restores sys.stdout.
C15_LogsAfterRestoration ==
    /\ \A i \in DOMAIN logged :
          (ByExcept(logged[i]) \/ ByFinally(logged[i])) =>
              logged[i].stdout_at = "real"
    /\ ExceptionAtEntryPoint =>
          /\ sys_stdout = "real"
          /\ StripNonEmpty(captured_output) =>
                \E i \in DOMAIN logged : ByFinally(logged[i])

\* C15 (amended): the classified record of the finally clause is emitted
\* with sys.stdout already restored, on both paths; the error record of the
\* except clause is emitted before the restoration, with sys.stdout still
\* the buffer; an exception reaches main only after the restoration and the
\* logging.
C15_FinallyLogsAfterRestoration ==
    /\ \A i \in DOMAIN logged :
          /\ ByFinally(logged[i]) => logged[i].stdout_at = "real"
          /\ ByExcept(logged[i]) =>
                /\ logged[i].stdout_at = "capture"
                /\ logged[i].level = "ERROR"
    /\ ExceptionAtEntryPoint =>
          /\ sys_stdout = "real"
          /\ StripNonEmpty(captured_output) =>
                \E i \in DOMAIN logged : ByFinally(logged[i])
          /\ (StripNonEmpty(captured_output) /\ engine_exc.is_exception) =>
                \E i \in DOMAIN logged : ByExcept(logged[i])

\* an ordinary engine error after the engine printed: both records exist
\* and the exception is at main
C15_Witness ==
    /\ ExceptionAtEntryPoint
    /\ engine_exc.is_exception
    /\ Len(logged) = 2
    /\ ByExcept(logged[1])
    /\ ByFinally(logged[2])

-----------------------------------------------------------------------------
(* C16 *)

FailureDoc(message, type) ==
    JsonDoc([error |-> "Research failed", message |-> message, type |-> type],
            "None")

\* The outcome <<documents on stdout, documents on stderr, exit code>> as a
\* function of what the run was started with and of what the engine
\* returned or raised.  Neither the capture buffer nor anything the engine
\* printed occurs in it.
DeterminedOutcome ==
    IF ~PreconditionsHold
    THEN << <<>>, <<JsonDoc(ExpectedEnvelope, "None")>>, 1 >>
    ELSE IF ~engine_available
    THEN << <<JsonDoc(PocFindings(sys_argv[2], sys_argv[3],
                                  ExpectedSettings(sys_argv[3])), "2")>>,
            <<>>, 0 >>
    ELSE IF engine_exc # NoExc
    THEN IF engine_exc.is_exception
         THEN << <<>>, <<FailureDoc(engine_exc.message, engine_exc.type)>>, 1 >>
         ELSE << <<>>, <<>>, engine_exc.code >>
    ELSE IF report.t # "str"
    THEN << <<>>,
            <<FailureDoc("Research report must be string, got <class '"
                         \o report.t \o "'>", "ValueError")>>, 1 >>
    ELSE IF engine_sources.t \notin {"NoneType", "list"}
    THEN << <<>>,
            <<FailureDoc("Research sources must be list, got <class '"
                         \o engine_sources.t \o "'>", "ValueError")>>, 1 >>
    ELSE << <<JsonDoc(MakeFindings(sys_argv[2], sys_argv[3],
                                   ExpectedSettings(sys_argv[3]), report.v,
                                   EngineList), "2")>>,
            <<>>, 0 >>

\* C16: the channel, the JSON document and the exit code a run ends with are
\* the ones DeterminedOutcome gives, so two runs with the same inputs,
\* environment and engine return values and exceptions end alike whatever
\* the engine printed into the capture buffer.
C16_OutcomeIgnoresCapture ==
    Exited =>
        /\ exit_code = DeterminedOutcome[3]
        /\ Len(StdoutDocs) = Len(DeterminedOutcome[1])
        /\ Len(StderrDocs) = Len(DeterminedOutcome[2])
        /\ StdoutDocs = DeterminedOutcome[1]
        /\ StderrDocs = DeterminedOutcome[2]

\* a run succeeded although the buffer held text with a failure token
C16_Witness ==
    /\ Exited
    /\ exit_code = 0
    /\ HasErrorPattern(captured_output)
    /\ Len(StdoutDocs) = 1
    /\ FromEngine(StdoutDocs[1].doc)

-----------------------------------------------------------------------------
(* C17 *)

\* all engine calls completed and the report is a string
StringReportReturned ==
    /\ engine_sources # Unbound
    /\ report.t = "str"

\* C17: with a string report, a source value of None gives a successful run
\* whose Finding has sources [] and sourcesAnalyzed 0; a source value that
\* is present and no list gives exit code 1, the ValueError envelope on
\* standard error and no Finding.
C17_SourcesAbsentOrNotList ==
    (Exited /\ StringReportReturned) =>
        /\ engine_sources.t = "NoneType" =>
              /\ exit_code = 0
              /\ Len(StdoutDocs) = 1
              /\ StdoutDocs[1].doc.sources = <<>>
              /\ StdoutDocs[1].doc.sourcesAnalyzed = 0
              /\ Len(StderrDocs) = 0
        /\ engine_sources.t \notin {"NoneType", "list"} =>
              /\ exit_code = 1
              /\ Len(StdoutDocs) = 0
              /\ StderrDocs =
                    <<FailureDoc("Research sources must be list, got <class '"
                                 \o engine_sources.t \o "'>", "ValueError")>>

\* the engine returned a string report and None for the sources, and the
\* run has succeeded
C17_Witness ==
    /\ Exited
    /\ StringReportReturned
    /\ engine_sources.t = "NoneType"
    /\ exit_code = 0
    /\ Len(StdoutDocs) = 1

-----------------------------------------------------------------------------
(* C18 *)

\* the places where the next thing main does is print a document
MainPrints == {"check_args", "check_depth", "check_key", "emit_result",
               "main_except"}

\* the result document as it would appear in the StringIO buffer
DocInCapture == Contains(captured_output, "{...}")

\* C18: whenever main is about to print a document, sys.stdout is the real
\* stream; the result document never lands in the capture buffer, and a run
\* that ends with code 0 after the redirection has its document on the real
\* stream; sys.stdout is pointed at the buffer at most once, and while it
\* is, the saved stream is the real one (no redirection inside another).
C18_DocumentsOutsideRedirection ==
    /\ pc \in MainPrints => sys_stdout = "real"
    /\ ~DocInCapture
    /\ (Exited /\ findings # Unbound) =>
          /\ sys_stdout = "real"
          /\ Len(StdoutDocs) = 1
          /\ StdoutDocs[1].doc = findings
    /\ redirects <= 1
    /\ sys_stdout = "capture" => (redirects = 1 /\ old_stdout = "real")

\* a run that redirected, captured engine output, restored the stream and
\* printed its Finding
C18_Witness ==
    /\ Exited
    /\ redirects = 1
    /\ captured_output # ""
    /\ sys_stdout = "real"
    /\ exit_code = 0
    /\ Len(StdoutDocs) = 1
    /\ FromEngine(StdoutDocs[1].doc)

-----------------------------------------------------------------------------
(* C19 *)

\* the engine was constructed and its three calls returned, nothing raised
EngineCallsCompleted ==
    /\ engine_exc = NoExc
    /\ \A step \in EngineSteps : Invoked(step)
    /\ engine_sources # Unbound

\* report is a string, sources is absent or a list
TypeChecksPass ==
    /\ report.t = "str"
    /\ engine_sources.t \in {"NoneType", "list"}

\* the engine could not be imported and the fallback Finding was printed
EndedByFallback ==
    /\ ~engine_available
    /\ Len(StdoutDocs) = 1
    /\ ~FromEngine(StdoutDocs[1].doc)

\* C19 (as claimed): a run ends with exit code 0 only if the three
\* preconditions held and either the engine was unavailable (fallback
\* Finding) or the three engine calls completed without raising and both
\* type checks passed; a Finding built from engine results is printed only
\* in the latter case.
C19_ExitZeroOnlyOnCompleteRun ==
    /\ (Exited /\ exit_code = 0) =>
          /\ PreconditionsHold
          /\ \/ EndedByFallback
             \/ (engine_available /\ EngineCallsCompleted /\ TypeChecksPass)
    /\ \A i \in DOMAIN StdoutDocs :
          FromEngine(StdoutDocs[i].doc) =>
              (PreconditionsHold /\ EngineCallsCompleted /\ TypeChecksPass)

====
